---- MODULE Spec2Model ----
(***************************************************************************)
(* Model of the capture controller of src/src/PacketSniffer.c:             *)
(* start_sniffing, stop_sniffing, is_sniffing_active, packet_callback and  *)
(* is_valid_device_name, run by pre-emptive threads over the file-static   *)
(* state (handle, globalHandler, state_mutex, is_running) and a black-box  *)
(* capture engine (pcap_open_live, pcap_loop, pcap_breakloop, pcap_close). *)
(*                                                                         *)
(* Atomicity.  is_running and globalHandler are read and written only      *)
(* between pthread_mutex_lock and pthread_mutex_unlock, so a critical      *)
(* section that touches only those two is one action, enabled when the     *)
(* mutex is free.  `handle` is also written and read outside the mutex     *)
(* (lines 115, 117, 136), so every statement that touches `handle` is a    *)
(* step of its own; a lock acquisition is merged with the statement that   *)
(* follows it and a release with the statement that precedes it.  Where    *)
(* the compiler may either keep `handle` in a register or load it again    *)
(* (lines 115/117, 150/151, 166/172) the model takes either value.         *)
(***************************************************************************)
EXTENDS Integers, Sequences, FiniteSets, TLC

(* ---------------------------------------------------------------- bounds *)
\* handles the engine can have open at once; pcap_open_live fails beyond it
MaxHandles == 2
\* longest device string drawn in SpecDev
MaxDevLen == 66

\* The threads: two call start_sniffing (each blocks in pcap_loop for the
\* life of its session), one calls stop_sniffing and is_sniffing_active.
\* Both of those hold state_mutex from entry to return, so calls of them
\* from several threads are serialized and act on the shared state as the
\* calls of one thread do.
Starters == {1, 2}
Controllers == {3}
Threads == Starters \cup Controllers
Handles == 1..MaxHandles

(* ------------------------------------------------------------- constants *)
NULL == 0
SNIFF_OK == 0
SNIFF_ERROR_NULL_PARAM == -1
SNIFF_ERROR_INVALID_DEVICE == -2
SNIFF_ERROR_ALREADY_RUNNING == -3
SNIFF_ERROR_PCAP_OPEN == -4
SNIFF_ERROR_NOT_RUNNING == -5
MAX_PACKET_SIZE == 64 * 1024
\* longest device name is_valid_device_name accepts
MAX_DEVICE_LEN == 64
\* results of pcap_loop
PCAP_LOOP_DONE == 0
PCAP_ERROR == -1
PCAP_ERROR_BREAK == -2
\* no value (a local that is not live): below every result code
NONE == SNIFF_ERROR_NOT_RUNNING - 4

(* ------------------------------------------------- 32-bit header fields *)
\* A bpf_u_int32 as two 16-bit halves (hi * 65536 + lo).
U32(h, l) == [hi |-> h, lo |-> l]

\* The conversion of a bpf_u_int32 to int: header->len passed to an int
\* parameter (27), (int)header->caplen (47).  Values from 2^31 up wrap to
\* negative ints.
ToInt32(u) ==
    IF u.hi >= 32768 THEN (u.hi - 65536) * 65536 + u.lo
    ELSE u.hi * 65536 + u.lo

\* A struct pcap_pkthdr: the claimed length len and the captured length
\* caplen.
Header(l, c) == [len |-> l, caplen |-> c]
NoHeader == Header(U32(0, 0), U32(0, 0))

is_valid_packet_length(length) == length > 0 /\ length <= MAX_PACKET_SIZE

(* --------------------------------------------------------- device names *)
\* A const char *: the null pointer, or a string of character codes
\* (none of them 0: strlen ends at the first NUL).
NullDev == [null |-> TRUE, s |-> << >>]
Str(s) == [null |-> FALSE, s |-> s]

\* is_valid_device_name with the length test off by one (len >= 64)
is_valid_device_name_short(device) ==
    IF device.null THEN FALSE
    ELSE LET len == Len(device.s) IN
         IF len = 0 \/ len >= MAX_DEVICE_LEN THEN FALSE
         ELSE \A i \in 1..len :
                LET c == device.s[i] IN
                   \/ (c >= 97 /\ c <= 122)
                   \/ (c >= 65 /\ c <= 90)
                   \/ (c >= 48 /\ c <= 57)
                   \/ c = 46 \/ c = 45 \/ c = 95

is_valid_device_name(device) ==
    IF device.null THEN FALSE
    ELSE LET len == Len(device.s) IN
         IF len = 0 \/ len > MAX_DEVICE_LEN THEN FALSE
         ELSE \A i \in 1..len :
                LET c == device.s[i] IN
                   \/ (c >= 97 /\ c <= 122)    \* 'a'..'z'
                   \/ (c >= 65 /\ c <= 90)     \* 'A'..'Z'
                   \/ (c >= 48 /\ c <= 57)     \* '0'..'9'
                   \/ c = 46 \/ c = 45 \/ c = 95   \* '.' '-' '_'

(* ----------------------------------------------------------------- state *)
VARIABLES
    handle,         \* static pcap_t *handle: NULL or a handle
    globalHandler,  \* static PacketHandler globalHandler: NULL or a handler
    is_running,     \* static volatile bool is_running
    state_mutex,    \* the thread holding state_mutex, or NULL
    hopen,          \* engine: hopen[h] iff handle h is open
    brk,            \* engine: brk[h] iff pcap_breakloop(h) is pending
    crash,          \* "none", or the fault that ended the process
    pc,             \* pc[t]: where thread t is
    dev,            \* start_sniffing: the device argument
    hnd,            \* start_sniffing: the handler argument
    reg,            \* the value of `handle` a thread holds in a register
    lh,             \* the handle a thread passed to pcap_loop
    res,            \* start_sniffing: int result of pcap_loop
    ret,            \* the value the finished call returns
    cbhdr,          \* packet_callback: *header of the packet being delivered
    cbh,            \* packet_callback: PacketHandler handler (line 42)
    cblen           \* packet_callback: the length passed to the handler

shared == << handle, globalHandler, is_running, state_mutex >>
engine == << hopen, brk >>
vars == << handle, globalHandler, is_running, state_mutex, hopen, brk, crash,
           pc, dev, hnd, reg, lh, res, ret, cbhdr, cbh, cblen >>

\* A caller's handler: each starter passes its own function.
HandlerOf(t) == t

InitLocals ==
    /\ pc = [t \in Threads |-> "idle"]
    /\ dev = [t \in Threads |-> NullDev]
    /\ hnd = [t \in Threads |-> NULL]
    /\ reg = [t \in Threads |-> NULL]
    /\ lh = [t \in Threads |-> NULL]
    /\ res = [t \in Threads |-> NONE]
    /\ ret = [t \in Threads |-> NONE]
    /\ cbhdr = [t \in Threads |-> NoHeader]
    /\ cbh = [t \in Threads |-> NULL]
    /\ cblen = [t \in Threads |-> NONE]

InitShared ==
    /\ handle = NULL
    /\ globalHandler = NULL
    /\ is_running = FALSE
    /\ state_mutex = NULL
    /\ hopen = [h \in Handles |-> FALSE]
    /\ brk = [h \in Handles |-> FALSE]
    /\ crash = "none"

Init == InitShared /\ InitLocals

\* A fault (a null or dangling pointer dereferenced) ends the process:
\* every thread stops.
Fault(why) ==
    /\ crash' = why
    /\ pc' = [t \in Threads |-> "dead"]

(* ------------------------------------------------------- start_sniffing *)
\* device arguments of the calls of the concurrent specification:
\* NULL, "en0", "e;"
Devices == { NullDev, Str(<<101, 110, 48>>), Str(<<101, 59>>) }

\* StartParamResult with the device validated ahead of the handler's null
\* check
StartParamResult_DeviceFirst(d, h) ==
    IF d.null THEN SNIFF_ERROR_NULL_PARAM
    ELSE IF ~is_valid_device_name(d) THEN SNIFF_ERROR_INVALID_DEVICE
    ELSE IF h = NULL THEN SNIFF_ERROR_NULL_PARAM
    ELSE NONE

\* The value start_sniffing returns from its parameter checks (80-95), or
\* NONE when they pass.
StartParamResult(d, h) ==
    IF d.null THEN SNIFF_ERROR_NULL_PARAM
    ELSE IF h = NULL THEN SNIFF_ERROR_NULL_PARAM
    ELSE IF ~is_valid_device_name(d) THEN SNIFF_ERROR_INVALID_DEVICE
    ELSE NONE

\* A thread calls start_sniffing(d, h): lines 79-95, which touch no shared
\* state, up to the return of an error or to the lock of line 98.
StartCall(t, d, h) ==
    /\ pc[t] = "idle"
    /\ dev' = [dev EXCEPT ![t] = d]
    /\ hnd' = [hnd EXCEPT ![t] = h]
    /\ LET r == StartParamResult(d, h) IN
         IF r # NONE
         THEN /\ pc' = [pc EXCEPT ![t] = "s_done"]
              /\ ret' = [ret EXCEPT ![t] = r]
         ELSE /\ pc' = [pc EXCEPT ![t] = "s_claim"]
              /\ UNCHANGED ret
    /\ UNCHANGED << shared, engine, crash, reg, lh, res, cbhdr, cbh, cblen >>

\* StartClaim recording the handler ahead of the test of is_running
StartClaim_RecordsFirst(t) ==
    /\ pc[t] = "s_claim"
    /\ state_mutex = NULL
    /\ globalHandler' = hnd[t]
    /\ IF is_running
       THEN /\ pc' = [pc EXCEPT ![t] = "s_done"]
            /\ ret' = [ret EXCEPT ![t] = SNIFF_ERROR_ALREADY_RUNNING]
       ELSE /\ pc' = [pc EXCEPT ![t] = "s_open"]
            /\ UNCHANGED ret
    /\ UNCHANGED << handle, is_running, state_mutex, engine, crash,
                    dev, hnd, reg, lh, res, cbhdr, cbh, cblen >>

\* Lines 98-109: under the mutex, return ALREADY_RUNNING when is_running,
\* else record the handler.  is_running itself is not set here.
StartClaim(t) ==
    /\ pc[t] = "s_claim"
    /\ state_mutex = NULL
    /\ IF is_running
       THEN /\ pc' = [pc EXCEPT ![t] = "s_done"]
            /\ ret' = [ret EXCEPT ![t] = SNIFF_ERROR_ALREADY_RUNNING]
            /\ UNCHANGED globalHandler
       ELSE /\ pc' = [pc EXCEPT ![t] = "s_open"]
            /\ globalHandler' = hnd[t]
            /\ UNCHANGED ret
    /\ UNCHANGED << handle, is_running, state_mutex, engine, crash,
                    dev, hnd, reg, lh, res, cbhdr, cbh, cblen >>

\* The handles pcap_open_live can return: any that is not open (the
\* address of a closed handle may be given out again).
FreeHandles == { h \in Handles : ~hopen[h] }

\* Line 115: handle = pcap_open_live(...), outside the mutex.  The engine
\* returns a new handle or NULL; the result is stored in `handle` and
\* stays in a register.
StartOpen(t, h) ==
    /\ pc[t] = "s_open"
    /\ h \in FreeHandles \cup {NULL}
    /\ handle' = h
    /\ reg' = [reg EXCEPT ![t] = h]
    /\ IF h # NULL
       THEN /\ hopen' = [hopen EXCEPT ![h] = TRUE]
            /\ brk' = [brk EXCEPT ![h] = FALSE]
       ELSE UNCHANGED << hopen, brk >>
    /\ pc' = [pc EXCEPT ![t] = "s_chk"]
    /\ UNCHANGED << globalHandler, is_running, state_mutex, crash,
                    dev, hnd, lh, res, ret, cbhdr, cbh, cblen >>

\* Line 117: if (handle == NULL), on the register or on `handle` loaded
\* again.
StartCheckOpen(t, v) ==
    /\ pc[t] = "s_chk"
    /\ v \in {reg[t], handle}
    /\ pc' = [pc EXCEPT ![t] = IF v = NULL THEN "s_rollback" ELSE "s_mark"]
    /\ reg' = [reg EXCEPT ![t] = NULL]
    /\ UNCHANGED << shared, engine, crash, dev, hnd, lh, res, ret, cbhdr, cbh, cblen >>

\* Lines 119-126: the open failed.
StartRollback(t) ==
    /\ pc[t] = "s_rollback"
    /\ state_mutex = NULL
    /\ globalHandler' = NULL
    /\ is_running' = FALSE
    /\ pc' = [pc EXCEPT ![t] = "s_done"]
    /\ ret' = [ret EXCEPT ![t] = SNIFF_ERROR_PCAP_OPEN]
    /\ UNCHANGED << handle, state_mutex, engine, crash,
                    dev, hnd, reg, lh, res, cbhdr, cbh, cblen >>

\* StartMark leaving state_mutex locked when it goes on to pcap_loop
StartMark_KeepsLock(t) ==
    /\ pc[t] = "s_mark"
    /\ state_mutex = NULL
    /\ is_running' = TRUE
    /\ state_mutex' = t
    /\ pc' = [pc EXCEPT ![t] = "s_loop"]
    /\ UNCHANGED << handle, globalHandler, engine, crash,
                    dev, hnd, reg, lh, res, ret, cbhdr, cbh, cblen >>

\* Lines 130-132.
StartMark(t) ==
    /\ pc[t] = "s_mark"
    /\ state_mutex = NULL
    /\ is_running' = TRUE
    /\ pc' = [pc EXCEPT ![t] = "s_loop"]
    /\ UNCHANGED << handle, globalHandler, state_mutex, engine, crash,
                    dev, hnd, reg, lh, res, ret, cbhdr, cbh, cblen >>

\* Line 136: pcap_loop(handle, ...) is entered with the value `handle`
\* has now.  pcap_loop(NULL) dereferences a null pointer.
LoopEnter(t) ==
    /\ pc[t] = "s_loop"
    /\ IF handle = NULL
       THEN /\ Fault("pcap_loop(NULL)")
            /\ UNCHANGED lh
       ELSE /\ lh' = [lh EXCEPT ![t] = handle]
            /\ pc' = [pc EXCEPT ![t] = "in_loop"]
            /\ UNCHANGED crash
    /\ UNCHANGED << shared, engine, dev, hnd, reg, res, ret, cbhdr, cbh, cblen >>

(* ------------------------------------------- pcap_loop, packet_callback *)
\* packet_callback without the unlock of line 43: the handler is called
\* with state_mutex held
packet_callback_HoldsLock(t, hd) ==
    /\ pc[t] = "in_loop"
    /\ IF ~is_valid_packet_length(ToInt32(hd.len))
       THEN UNCHANGED << pc, cbhdr, cbh, cblen, state_mutex >>
       ELSE /\ state_mutex = NULL
            /\ IF globalHandler = NULL
               THEN UNCHANGED << pc, cbhdr, cbh, cblen, state_mutex >>
               ELSE /\ pc' = [pc EXCEPT ![t] = "cb_call"]
                    /\ state_mutex' = t
                    /\ cbhdr' = [cbhdr EXCEPT ![t] = hd]
                    /\ cbh' = [cbh EXCEPT ![t] = globalHandler]
                    /\ cblen' = [cblen EXCEPT ![t] = ToInt32(hd.caplen)]
    /\ UNCHANGED << handle, globalHandler, is_running, engine, crash,
                    dev, hnd, reg, lh, res, ret >>

\* packet_callback (20-49) for one packet whose header carries the claimed
\* length hd.len and the captured length hd.caplen.  A header whose len
\* fails is_valid_packet_length is dropped (27-31); otherwise the handler
\* is read under the mutex (41-43) and, when it is not NULL, is about to be
\* called with (int)header->caplen (45-47).
packet_callback(t, hd) ==
    /\ pc[t] = "in_loop"
    /\ IF ~is_valid_packet_length(ToInt32(hd.len))
       THEN UNCHANGED << pc, cbhdr, cbh, cblen >>
       ELSE /\ state_mutex = NULL
            /\ IF globalHandler = NULL
               THEN UNCHANGED << pc, cbhdr, cbh, cblen >>
               ELSE /\ pc' = [pc EXCEPT ![t] = "cb_call"]
                    /\ cbhdr' = [cbhdr EXCEPT ![t] = hd]
                    /\ cbh' = [cbh EXCEPT ![t] = globalHandler]
                    /\ cblen' = [cblen EXCEPT ![t] = ToInt32(hd.caplen)]
    /\ UNCHANGED << shared, engine, crash, dev, hnd, reg, lh, res, ret >>

\* Line 47: the call handler(packet, (int)header->caplen) begins.
HandlerInvoke(t) ==
    /\ pc[t] = "cb_call"
    /\ pc' = [pc EXCEPT ![t] = "in_handler"]
    /\ UNCHANGED << shared, engine, crash, dev, hnd, reg, lh, res, ret, cbhdr, cbh, cblen >>

\* The handler returns, and packet_callback returns into pcap_loop.
HandlerReturn(t) ==
    /\ pc[t] = "in_handler"
    /\ pc' = [pc EXCEPT ![t] = "in_loop"]
    /\ cbhdr' = [cbhdr EXCEPT ![t] = NoHeader]
    /\ cbh' = [cbh EXCEPT ![t] = NULL]
    /\ cblen' = [cblen EXCEPT ![t] = NONE]
    /\ UNCHANGED << shared, engine, crash, dev, hnd, reg, lh, res, ret >>

\* pcap_loop sees the pending pcap_breakloop of its handle, clears it and
\* returns -2.
LoopBreak(t) ==
    /\ pc[t] = "in_loop"
    /\ brk[lh[t]]
    /\ brk' = [brk EXCEPT ![lh[t]] = FALSE]
    /\ res' = [res EXCEPT ![t] = PCAP_ERROR_BREAK]
    /\ pc' = [pc EXCEPT ![t] = "s_td"]
    /\ UNCHANGED << shared, hopen, crash, dev, hnd, reg, lh, ret, cbhdr, cbh, cblen >>

\* pcap_loop returns of itself: 0 (no more packets) or -1 (error).
LoopReturn(t, r) ==
    /\ pc[t] = "in_loop"
    /\ r \in {PCAP_LOOP_DONE, PCAP_ERROR}
    /\ res' = [res EXCEPT ![t] = r]
    /\ pc' = [pc EXCEPT ![t] = "s_td"]
    /\ UNCHANGED << shared, engine, crash, dev, hnd, reg, lh, ret, cbhdr, cbh, cblen >>

\* pcap_loop runs on a handle that has been closed (freed memory): the
\* process may fault here, or go on as the other loop actions say.
LoopFault(t) ==
    /\ pc[t] = "in_loop"
    /\ ~hopen[lh[t]]
    /\ Fault("pcap_loop on a closed handle")
    /\ UNCHANGED << shared, engine, dev, hnd, reg, lh, res, ret, cbhdr, cbh, cblen >>

(* ---------------------------------------------- start_sniffing teardown *)
\* The value start_sniffing returns after the loop (160).
LoopResultCode(r) ==
    IF r = PCAP_LOOP_DONE \/ r = PCAP_ERROR_BREAK THEN SNIFF_OK
    ELSE SNIFF_ERROR_PCAP_OPEN

\* Lines 139-150: lock; on -1 pcap_geterr(handle) (a null handle faults);
\* then if (handle != NULL).  With handle NULL the rest of the teardown
\* (155-160) touches only mutex-protected state and is done here.
TeardownEnter(t) ==
    /\ pc[t] = "s_td"
    /\ state_mutex = NULL
    /\ IF res[t] = PCAP_ERROR /\ handle = NULL
       THEN /\ Fault("pcap_geterr(NULL)")
            /\ UNCHANGED << shared, reg, lh, res, ret >>
       ELSE IF handle = NULL
       THEN /\ globalHandler' = NULL
            /\ is_running' = FALSE
            /\ pc' = [pc EXCEPT ![t] = "s_done"]
            /\ ret' = [ret EXCEPT ![t] = LoopResultCode(res[t])]
            /\ lh' = [lh EXCEPT ![t] = NULL]
            /\ res' = [res EXCEPT ![t] = NONE]
            /\ UNCHANGED << handle, state_mutex, crash, reg >>
       ELSE /\ state_mutex' = t
            /\ reg' = [reg EXCEPT ![t] = handle]
            /\ pc' = [pc EXCEPT ![t] = "s_close"]
            /\ UNCHANGED << handle, globalHandler, is_running, crash, lh, res, ret >>
    /\ UNCHANGED << engine, dev, hnd, cbhdr, cbh, cblen >>

\* Line 151: pcap_close(handle), on the register or on `handle` loaded
\* again.  pcap_close(NULL) faults; closing a closed handle is a double
\* free, which faults (fault) or goes unnoticed.
TeardownClose(t, v, fault) ==
    /\ pc[t] = "s_close"
    /\ v \in {reg[t], handle}
    /\ IF v = NULL
       THEN /\ Fault("pcap_close(NULL)")
            /\ UNCHANGED << hopen, reg >>
       ELSE IF ~hopen[v] /\ fault
       THEN /\ Fault("pcap_close on a closed handle")
            /\ UNCHANGED << hopen, reg >>
       ELSE /\ hopen' = [hopen EXCEPT ![v] = FALSE]
            /\ pc' = [pc EXCEPT ![t] = "s_fin"]
            /\ reg' = [reg EXCEPT ![t] = NULL]
            /\ UNCHANGED crash
    /\ UNCHANGED << shared, brk, dev, hnd, lh, res, ret, cbhdr, cbh, cblen >>

\* TeardownFinish without is_running = false
TeardownFinish_KeepsRunning(t) ==
    /\ pc[t] = "s_fin"
    /\ handle' = NULL
    /\ globalHandler' = NULL
    /\ state_mutex' = NULL
    /\ pc' = [pc EXCEPT ![t] = "s_done"]
    /\ ret' = [ret EXCEPT ![t] = LoopResultCode(res[t])]
    /\ reg' = [reg EXCEPT ![t] = NULL]
    /\ lh' = [lh EXCEPT ![t] = NULL]
    /\ res' = [res EXCEPT ![t] = NONE]
    /\ UNCHANGED << is_running, engine, crash, dev, hnd, cbhdr, cbh, cblen >>

\* Lines 152-160: handle = NULL, globalHandler = NULL, is_running = false,
\* unlock, return.
TeardownFinish(t) ==
    /\ pc[t] = "s_fin"
    /\ handle' = NULL
    /\ globalHandler' = NULL
    /\ is_running' = FALSE
    /\ state_mutex' = NULL
    /\ pc' = [pc EXCEPT ![t] = "s_done"]
    /\ ret' = [ret EXCEPT ![t] = LoopResultCode(res[t])]
    /\ reg' = [reg EXCEPT ![t] = NULL]
    /\ lh' = [lh EXCEPT ![t] = NULL]
    /\ res' = [res EXCEPT ![t] = NONE]
    /\ UNCHANGED << engine, crash, dev, hnd, cbhdr, cbh, cblen >>

(* -------------------------------------------------------- stop_sniffing *)
\* StopEnter testing the handle alone: if (handle == NULL)
StopEnter_HandleOnly(t) ==
    /\ pc[t] = "idle"
    /\ state_mutex = NULL
    /\ IF handle = NULL
       THEN /\ pc' = [pc EXCEPT ![t] = "p_done"]
            /\ ret' = [ret EXCEPT ![t] = SNIFF_ERROR_NOT_RUNNING]
            /\ UNCHANGED << state_mutex, reg >>
       ELSE /\ pc' = [pc EXCEPT ![t] = "p_break"]
            /\ state_mutex' = t
            /\ reg' = [reg EXCEPT ![t] = handle]
            /\ UNCHANGED ret
    /\ UNCHANGED << handle, globalHandler, is_running, engine, crash,
                    dev, hnd, lh, res, cbhdr, cbh, cblen >>

\* Lines 164-169: lock; if (!is_running || handle == NULL) unlock and
\* return NOT_RUNNING.
StopEnter(t) ==
    /\ pc[t] = "idle"
    /\ state_mutex = NULL
    /\ IF ~is_running \/ handle = NULL
       THEN /\ pc' = [pc EXCEPT ![t] = "p_done"]
            /\ ret' = [ret EXCEPT ![t] = SNIFF_ERROR_NOT_RUNNING]
            /\ UNCHANGED << state_mutex, reg >>
       ELSE /\ pc' = [pc EXCEPT ![t] = "p_break"]
            /\ state_mutex' = t
            /\ reg' = [reg EXCEPT ![t] = handle]
            /\ UNCHANGED ret
    /\ UNCHANGED << handle, globalHandler, is_running, engine, crash,
                    dev, hnd, lh, res, cbhdr, cbh, cblen >>

\* Lines 172-179: pcap_breakloop(handle), on the register or on `handle`
\* loaded again; unlock; return OK.  The handle is not closed here.
StopBreak(t, v) ==
    /\ pc[t] = "p_break"
    /\ v \in {reg[t], handle}
    /\ IF v = NULL
       THEN /\ Fault("pcap_breakloop(NULL)")
            /\ UNCHANGED << brk, state_mutex, ret, reg >>
       ELSE /\ brk' = [brk EXCEPT ![v] = TRUE]
            /\ state_mutex' = NULL
            /\ pc' = [pc EXCEPT ![t] = "p_done"]
            /\ ret' = [ret EXCEPT ![t] = SNIFF_OK]
            /\ reg' = [reg EXCEPT ![t] = NULL]
            /\ UNCHANGED crash
    /\ UNCHANGED << handle, globalHandler, is_running, hopen,
                    dev, hnd, lh, res, cbhdr, cbh, cblen >>

(* --------------------------------------------------- is_sniffing_active *)
\* Lines 183-186; the bool result as 1 or 0.
is_sniffing_active(t) ==
    /\ pc[t] = "idle"
    /\ state_mutex = NULL
    /\ ret' = [ret EXCEPT ![t] = IF is_running /\ handle # NULL THEN 1 ELSE 0]
    /\ pc' = [pc EXCEPT ![t] = "a_done"]
    /\ UNCHANGED << shared, engine, crash, dev, hnd, reg, lh, res, cbhdr, cbh, cblen >>

\* The caller takes the result of a finished call.
Return(t) ==
    /\ pc[t] \in {"s_done", "p_done", "a_done"}
    /\ pc' = [pc EXCEPT ![t] = "idle"]
    /\ ret' = [ret EXCEPT ![t] = NONE]
    /\ dev' = [dev EXCEPT ![t] = NullDev]
    /\ hnd' = [hnd EXCEPT ![t] = NULL]
    /\ UNCHANGED << shared, engine, crash, reg, lh, res, cbhdr, cbh, cblen >>

(* -------------------------------------------------------- specification *)
\* packet headers of the concurrent specification: len = caplen = 0 and
\* len = caplen = 64
Headers == { Header(U32(0, 0), U32(0, 0)), Header(U32(0, 64), U32(0, 64)) }

\* The steps a starter takes by itself once its call is made.
StarterStep(t) ==
    \/ StartClaim(t)
    \/ \E h \in Handles \cup {NULL} : StartOpen(t, h)
    \/ \E v \in Handles \cup {NULL} : StartCheckOpen(t, v)
    \/ StartRollback(t)
    \/ StartMark(t)
    \/ LoopEnter(t)
    \/ HandlerInvoke(t)
    \/ HandlerReturn(t)
    \/ LoopBreak(t)
    \/ TeardownEnter(t)
    \/ \E v \in Handles \cup {NULL}, f \in BOOLEAN : TeardownClose(t, v, f)
    \/ TeardownFinish(t)

ControllerStep(t) ==
    \E v \in Handles \cup {NULL} : StopBreak(t, v)

Next ==
    \/ \E t \in Starters, d \in Devices :
          \E h \in {NULL, HandlerOf(t)} : StartCall(t, d, h)
    \/ \E t \in Starters : StarterStep(t)
    \/ \E t \in Starters, hd \in Headers : packet_callback(t, hd)
    \/ \E t \in Starters, r \in {PCAP_LOOP_DONE, PCAP_ERROR} : LoopReturn(t, r)
    \/ \E t \in Starters : LoopFault(t)
    \/ \E t \in Controllers : StopEnter(t)
    \/ \E t \in Controllers : ControllerStep(t)
    \/ \E t \in Controllers : is_sniffing_active(t)
    \/ \E t \in Threads : Return(t)

Spec == Init /\ [][Next]_vars

(* ------------------------------------------------ positions of a thread *)
\* inside start_sniffing, past the parameter checks, not yet returned
StartPcs == { "s_claim", "s_open", "s_chk", "s_rollback", "s_mark", "s_loop",
              "in_loop", "cb_call", "in_handler", "s_td", "s_close", "s_fin" }
\* pcap_open_live has been called by this call of start_sniffing
OpenedPcs == StartPcs \ { "s_claim", "s_open" }
\* blocked inside pcap_loop (or in a callback made by it)
InLoopPcs == { "in_loop", "cb_call", "in_handler" }
\* pcap_loop has been called by this call of start_sniffing
LoopedPcs == InLoopPcs \cup { "s_td", "s_close", "s_fin" }

\* what is_sniffing_active would return now (184)
IsActive == is_running /\ handle # NULL

OpenHandles == { h \in Handles : hopen[h] }

(* ---------------------------------------------------------------- claims *)
\* C1: of two start() calls made concurrently from Idle at most one
\* establishes the Active state; while a call has entered the engine's
\* loop and not returned, no other call in progress has called the engine's
\* open (it returns ALREADY_RUNNING with no engine call made).
C1_OnlyOneStartReachesEngine ==
    \A t \in Starters, u \in Starters :
        (t # u /\ pc[t] \in LoopedPcs) => pc[u] \notin OpenedPcs

\* C2: at most one session exists: at most one engine handle is open and
\* at most one thread is inside the engine's blocking loop.
C2_AtMostOneSession ==
    /\ Cardinality(OpenHandles) <= 1
    /\ Cardinality({ t \in Starters : pc[t] \in InLoopPcs }) <= 1

\* C4 as stated: once a start() call has returned, by whatever exit path,
\* is_active() is false and a start() would not find the state Active.
C4_IdleAfterAnyStartReturn ==
    \A t \in Starters : pc[t] = "s_done" => ~IsActive /\ ~is_running

\* C4 amended: once a start() call has returned and no other start() call
\* is in progress, is_active() is false and a start() would not find the
\* state Active.
C4_IdleWhenNoStartInProgress ==
    ( /\ \E t \in Starters : pc[t] = "s_done"
      /\ \A u \in Starters : pc[u] \notin StartPcs )
    => ~IsActive /\ ~is_running

\* a start() call that ran a session has returned OK, another has returned
\* PCAP_OPEN, and no start() call is in progress
C4_Witness ==
    /\ \E t \in Starters : pc[t] = "s_done" /\ ret[t] = SNIFF_OK
    /\ \E t \in Starters : pc[t] = "s_done" /\ ret[t] = SNIFF_ERROR_PCAP_OPEN
    /\ \A u \in Starters : pc[u] \notin StartPcs

AllowedChars == (48..57) \cup (65..90) \cup (97..122) \cup {45, 46, 95}
DeviceAccepted(d) ==
    /\ ~d.null
    /\ Len(d.s) \in 1..64
    /\ \A i \in 1..Len(d.s) : d.s[i] \in AllowedChars

\* C9: start() with a null device or a null handler returns NULL_PARAM
\* (also when the device is invalid), with a non-null handler and a device
\* that fails validation INVALID_DEVICE; either return is made in the step
\* of the call itself, whatever the state and whoever holds the mutex, and
\* leaves handle, handler, running flag, mutex and engine unchanged.
C9_InputErrors ==
    [][ \A t \in Starters :
          ( pc[t] = "idle" /\ pc'[t] \in {"s_done", "s_claim"} )
          => /\ ( dev'[t].null \/ hnd'[t] = NULL )
                => pc'[t] = "s_done" /\ ret'[t] = SNIFF_ERROR_NULL_PARAM
             /\ ( ~dev'[t].null /\ hnd'[t] # NULL /\ ~DeviceAccepted(dev'[t]) )
                => pc'[t] = "s_done" /\ ret'[t] = SNIFF_ERROR_INVALID_DEVICE
             /\ pc'[t] = "s_done" => UNCHANGED << shared, engine >>
      ]_vars

\* start() has returned NULL_PARAM for an invalid device with a null
\* handler while another thread holds the mutex in an Active session
C9_Witness ==
    \E t \in Starters :
        /\ pc[t] = "s_done"
        /\ ret[t] = SNIFF_ERROR_NULL_PARAM
        /\ ~dev[t].null /\ ~DeviceAccepted(dev[t])
        /\ state_mutex # NULL
        /\ is_running

\* The teardown of the session handler h was registered for has completed:
\* the start() call that recorded h has closed the handle, cleared the
\* handler and the running flag, and returned the code of a loop that ended
\* cleanly or by cancel.
TornDown(h) ==
    \E u \in Starters :
        HandlerOf(u) = h /\ pc[u] = "s_done" /\ ret[u] = SNIFF_OK

\* C5: no handler invocation begins after the teardown of the session the
\* handler was registered for has completed.
C5_NoDeliveryPastTeardown ==
    [][ \A t \in Starters :
          ( pc[t] = "cb_call" /\ pc'[t] = "in_handler" ) => ~TornDown(cbh[t])
      ]_vars

\* C8: a handle is closed only by the thread that ran the engine loop on
\* it, after that loop returned, never while another thread is still in the
\* loop on it, and never twice: every pcap_close closes an open handle that
\* the closing thread looped on and that no thread is looping on.
C8_CloseByLoopThreadOnly ==
    [][ \A t \in Starters :
          ( pc[t] = "s_close" /\ pc'[t] # "s_close" )
          => \E v \in Handles :
                /\ hopen[v] /\ ~hopen'[v]
                /\ v = lh[t]
                /\ \A u \in Starters : ~(pc[u] \in InLoopPcs /\ lh[u] = v)
      ]_vars

(* -------------------------------------- packet_callback on its own *)
\* 32-bit lengths tried as len and as caplen: 0, 1, 64, 1024, 1500, 65535,
\* 65536, 65537, 2^31 - 1, 2^31, 2^32 - 1
ProbeLengths ==
    { U32(0, 0), U32(0, 1), U32(0, 64), U32(0, 1024), U32(0, 1500),
      U32(0, 65535), U32(1, 0), U32(1, 1), U32(32767, 65535), U32(32768, 0),
      U32(65535, 65535) }

ProbeHeaders == { Header(l, c) : l \in ProbeLengths, c \in ProbeLengths }

\* One session is Active: thread 1 has registered its handler, opened
\* handle 1 and sits in pcap_loop.
InitPkt ==
    /\ handle = 1
    /\ globalHandler = HandlerOf(1)
    /\ is_running = TRUE
    /\ state_mutex = NULL
    /\ hopen = [h \in Handles |-> h = 1]
    /\ brk = [h \in Handles |-> FALSE]
    /\ crash = "none"
    /\ pc = [t \in Threads |-> IF t = 1 THEN "in_loop" ELSE "idle"]
    /\ dev = [t \in Threads |-> IF t = 1 THEN Str(<<101, 110, 48>>) ELSE NullDev]
    /\ hnd = [t \in Threads |-> IF t = 1 THEN HandlerOf(1) ELSE NULL]
    /\ reg = [t \in Threads |-> NULL]
    /\ lh = [t \in Threads |-> IF t = 1 THEN 1 ELSE NULL]
    /\ res = [t \in Threads |-> NONE]
    /\ ret = [t \in Threads |-> NONE]
    /\ cbhdr = [t \in Threads |-> NoHeader]
    /\ cbh = [t \in Threads |-> NULL]
    /\ cblen = [t \in Threads |-> NONE]

NextPkt ==
    \/ \E hd \in ProbeHeaders : packet_callback(1, hd)
    \/ HandlerInvoke(1)
    \/ HandlerReturn(1)

\* The engine delivers packets with any of the probe headers to the
\* callback of the one session.
SpecPkt == InitPkt /\ [][NextPkt]_vars

\* the value of a bpf_u_int32 lies in 1..65536
U32InRange(u) == (u.hi = 0 /\ u.lo >= 1) \/ (u.hi = 1 /\ u.lo = 0)

\* C6: the handler is invoked only for events whose length is in 1..65536,
\* and every length passed to the handler lies in 1..65536 and is the
\* captured length, whatever claimed and captured lengths the engine
\* reports.
C6_DeliveredLengthInRange ==
    \A t \in Starters :
        pc[t] = "in_handler"
        => /\ cblen[t] \in 1..MAX_PACKET_SIZE
           /\ U32InRange(cbhdr[t].caplen)
           /\ cblen[t] = cbhdr[t].caplen.hi * 65536 + cbhdr[t].caplen.lo

(* ----------------------------------- is_valid_device_name on its own *)
\* characters tried in a device string: space - . / 0 9 : ; @ A Z [ _ ` a z
\* { DEL and the control character 1
ProbeChars == { 1, 32, 45, 46, 47, 48, 57, 58, 59, 64, 65, 90, 91, 95, 96, 97,
                122, 123, 127 }

\* the string of n characters `fill` with c at position p (p = 0: nowhere)
MkDev(n, fill, p, c) == Str([ i \in 1..n |-> IF i = p THEN c ELSE fill ])

ProbeDevices ==
    {NullDev} \cup
    UNION { { MkDev(n, 97, p, c) : p \in {0, 1, n \div 2, n}, c \in ProbeChars }
            : n \in 0..MaxDevLen }

NextDev ==
    \E d \in ProbeDevices, h \in {NULL, HandlerOf(1)} : StartCall(1, d, h)

\* Thread 1 calls start_sniffing once, with any probe device.
SpecDev == Init /\ [][NextDev]_vars

\* C10: validate_device accepts d iff 1 <= len(d) <= 64 and every character
\* of d is in [A-Za-z0-9._-]: a start() call with a non-null handler and a
\* non-null device goes past its parameter checks iff the device is of
\* that form, and returns INVALID_DEVICE otherwise; the null device is
\* rejected.
C10_DeviceValidation ==
    /\ ~is_valid_device_name(NullDev)
    /\ \A t \in Starters :
         ( pc[t] \in {"s_done", "s_claim"} /\ ~dev[t].null /\ hnd[t] # NULL )
         => /\ pc[t] = "s_claim" <=> DeviceAccepted(dev[t])
            /\ pc[t] = "s_done" => ret[t] = SNIFF_ERROR_INVALID_DEVICE

\* a 64-character device of allowed characters, ending in '_', has been
\* accepted
C10_Witness ==
    \E t \in Starters :
        /\ pc[t] = "s_claim"
        /\ Len(dev[t].s) = MAX_DEVICE_LEN
        /\ dev[t].s[MAX_DEVICE_LEN] = 95

(* ------------------------------------------------------------- fairness *)
\* Threads are scheduled fairly and no thread is starved of the mutex: a
\* thread whose next step is possible again and again takes it.  The engine
\* honours the cancel signal: a loop whose handle has a pcap_breakloop
\* pending returns, however many packets arrive.  Nothing obliges a caller
\* to make a call, a packet to arrive or the loop to end of itself.
Fairness ==
    /\ \A t \in Starters : SF_vars(StarterStep(t)) /\ SF_vars(LoopBreak(t))
    /\ \A t \in Controllers : SF_vars(ControllerStep(t))

LiveSpec == Spec /\ Fairness

\* C3: once stop() has returned OK, the loop thread's start() eventually
\* returns: a state follows in which no thread is in the engine loop, no
\* handle is open and is_active() is false (or the process has ended).
C3_StopEndsSession ==
    ( \E t \in Controllers : pc[t] = "p_done" /\ ret[t] = SNIFF_OK )
    ~> ( \/ crash # "none"
         \/ /\ \A u \in Starters : pc[u] \notin InLoopPcs
            /\ OpenHandles = {}
            /\ ~IsActive )

(* ------------------------------------------------ the session invariants *)
\* C11: in every state another thread can observe (the mutex is free) the
\* registered handler and the engine handle are both present or both
\* absent, the states of a start() between recording the handler and the
\* end of the engine open included.
C11_HandlerIffHandle ==
    state_mutex = NULL => ( (globalHandler = NULL) <=> (handle = NULL) )

\* the steps of thread t that read or write handle, globalHandler or
\* is_running
SessionAccess(t) ==
    \/ /\ pc[t] \in { "s_claim", "s_open", "s_chk", "s_rollback", "s_mark",
                      "s_loop", "s_td", "s_close", "s_fin", "p_break" }
       /\ pc'[t] # pc[t]
    \/ pc[t] = "in_loop" /\ pc'[t] = "cb_call"
    \/ pc[t] = "idle" /\ pc'[t] \in { "p_done", "p_break", "a_done" }

\* C12: every read and write of handle, globalHandler and is_running is
\* made by a thread that holds state_mutex: no thread takes a step that
\* accesses them while another thread holds the mutex.
C12_AccessUnderMutex ==
    [][ \A t \in Threads :
          ( SessionAccess(t) /\ crash' = "none" ) => state_mutex \in {NULL, t}
      ]_vars

\* thread u has established a session: it has set is_running and has not
\* finished its teardown
Established(u) == pc[u] \in {"s_loop"} \cup LoopedPcs

\* C13: a start() whose engine open failed returns PCAP_OPEN; its rollback
\* leaves the handler and the running flag of a session established by
\* another thread as they are, and with no such session the state is Idle
\* afterwards (no handler, not running, no handle).
C13_RollbackOwnStateOnly ==
    [][ \A t \in Starters :
          ( pc[t] = "s_rollback" /\ pc'[t] = "s_done" )
          => /\ ret'[t] = SNIFF_ERROR_PCAP_OPEN
             /\ IF \E u \in Starters \ {t} : Established(u)
                THEN UNCHANGED << handle, globalHandler, is_running >>
                ELSE globalHandler' = NULL /\ ~is_running' /\ handle' = NULL
      ]_vars

\* C14: a start() that finds the running flag set returns ALREADY_RUNNING
\* with no side effects: handle, handler, running flag, mutex and engine
\* are unchanged (no open is made), and every other thread, the one in the
\* capture loop and its delivery in progress included, is where it was.
C14_AlreadyRunningNoEffect ==
    [][ \A t \in Starters :
          ( pc[t] = "s_claim" /\ pc'[t] \notin {"s_claim", "dead"} /\ is_running )
          => /\ pc'[t] = "s_done"
             /\ ret'[t] = SNIFF_ERROR_ALREADY_RUNNING
             /\ UNCHANGED << shared, engine, lh, res, cbhdr, cbh, cblen >>
             /\ \A u \in Threads \ {t} : pc'[u] = pc[u]
      ]_vars

\* start() has returned ALREADY_RUNNING while the other thread's session
\* goes on: its handler is still registered, its handle open, and it is in
\* the loop delivering a packet
C14_Witness ==
    \E t \in Starters, u \in Starters :
        /\ t # u
        /\ pc[t] = "s_done" /\ ret[t] = SNIFF_ERROR_ALREADY_RUNNING
        /\ pc[u] = "in_handler"
        /\ IsActive /\ handle = lh[u] /\ hopen[handle]
        /\ globalHandler = HandlerOf(u) /\ cbh[u] = HandlerOf(u)

\* C15: when the engine loop has exited, whatever its result, start()
\* returns only after the teardown under the lock: the handle the loop ran
\* on is closed, and handle, handler and running flag are cleared; it
\* returns OK iff the loop result was 0 or -2, PCAP_OPEN otherwise.
C15_TeardownOnLoopExit ==
    [][ \A t \in Starters :
          ( pc[t] \in {"s_td", "s_fin"} /\ pc'[t] = "s_done" )
          => /\ ~hopen'[lh[t]]
             /\ handle' = NULL /\ globalHandler' = NULL /\ ~is_running'
             /\ state_mutex' = NULL
             /\ ret'[t] = SNIFF_OK <=> res[t] \in {PCAP_LOOP_DONE, PCAP_ERROR_BREAK}
             /\ ret'[t] # SNIFF_OK => ret'[t] = SNIFF_ERROR_PCAP_OPEN
      ]_vars

\* C16: state_mutex is never held by a thread that is inside the engine's
\* loop (a callback of it included) or inside the engine's open, and a
\* thread that holds it releases it without waiting for a session to end:
\* whenever the mutex is held it becomes free again (or the process has
\* ended), so a stop() or is_active() waiting for it gets it and returns.
C16_MutexNotHeldWhileBlocked ==
    /\ [](\A t \in Starters :
            pc[t] \in InLoopPcs \cup {"s_open"} => state_mutex # t)
    /\ (state_mutex # NULL) ~> (state_mutex = NULL \/ crash # "none")

\* stop() has taken the mutex, issued the cancel and returned OK while the
\* capture thread is still in the loop on the handle, delivering a packet
C16_Witness ==
    \E t \in Controllers, u \in Starters :
        /\ pc[t] = "p_done" /\ ret[t] = SNIFF_OK
        /\ pc[u] = "in_handler" /\ lh[u] = handle /\ brk[handle]
        /\ state_mutex = NULL

\* thread t is in the engine loop on an open handle, or has marked the
\* state running and is about to enter the loop on the open handle
InSession(t) ==
    \/ pc[t] \in InLoopPcs /\ hopen[lh[t]]
    \/ pc[t] = "s_loop" /\ handle # NULL /\ hopen[handle]

\* C17: whenever a handle is open and a thread is in, or committed to
\* entering, the loop on it, the state is Active: is_active() would return
\* true and stop() would issue the cancel and return OK; and is_active()
\* returns true iff is_running is set and handle is not NULL, stop()
\* returns NOT_RUNNING iff not so.
C17_ActiveWhileSession ==
    /\ []( (\E t \in Starters : InSession(t)) => IsActive )
    /\ [][ \A t \in Controllers :
             /\ ( pc[t] = "idle" /\ pc'[t] = "a_done" )
                => ( ret'[t] = 1 <=> IsActive ) /\ ret'[t] \in {0, 1}
             /\ ( pc[t] = "idle" /\ pc'[t] \in {"p_done", "p_break"} )
                => ( pc'[t] = "p_break" <=> IsActive )
         ]_vars

\* C18: stop() never issues the cancel on a handle that does not exist or
\* has been closed: the pcap_breakloop of stop() is never made on NULL, and
\* a handle it newly marks for cancel is open.
C18_CancelOnOpenHandleOnly ==
    [][ \A t \in Controllers :
          ( pc[t] = "p_break" /\ pc'[t] # "p_break" )
          => /\ crash' # "pcap_breakloop(NULL)"
             /\ \A h \in Handles : ( brk'[h] /\ ~brk[h] ) => hopen[h]
      ]_vars

\* C19: no engine handle is leaked: whenever no start() call is in
\* progress (and the process has not ended), no engine handle is open.
C19_NoHandleLeak ==
    ( crash = "none" /\ \A t \in Starters : pc[t] \notin StartPcs )
    => OpenHandles = {}

\* the places of its function where a thread holds state_mutex across
\* steps: the teardown of start_sniffing from its lock to its unlock
\* (139-158) and stop_sniffing from its test to its unlock (166-177)
LockedPcs == { "s_close", "s_fin", "p_break" }

\* C20: every lock of state_mutex is followed by its unlock before the
\* function returns or blocks in the engine, and the handler is called with
\* the mutex not held: while the process runs, the mutex is held only by a
\* thread between a lock and the unlock of the same function, never by a
\* thread that has returned, is in the engine's open or loop, or is in a
\* callback or handler.
C20_LockAlwaysReleased ==
    crash = "none"
    => /\ state_mutex \in Threads \cup {NULL}
       /\ \A t \in Threads :
            /\ state_mutex = t => pc[t] \in LockedPcs
            /\ pc[t] \in {"cb_call", "in_handler"} => state_mutex # t

\* a handler is being called in one thread while stop(), called from
\* another, holds the mutex
C20_Witness ==
    \E t \in Starters, u \in Controllers :
        /\ pc[t] = "in_handler"
        /\ pc[u] = "p_break" /\ state_mutex = u
        /\ crash = "none"

====
